---- MODULE Spec2Model ----
(***************************************************************************)
(* A model of src/schedule/__init__.py: the Scheduler registry, the Job    *)
(* builder and the recurrence computation Job._schedule_next_run.          *)
(*                                                                         *)
(* Datetimes are whole seconds counted from a Monday 00:00:00.  The wall   *)
(* clock (datetime.datetime.now()) is the variable now; it advances in     *)
(* StepsPerDay equal steps a day.  All reads of the clock made by one      *)
(* Job.run() return the same instant; the clock may advance between two    *)
(* jobs of one sweep (a work unit takes time, run_all sleeps).             *)
(***************************************************************************)
EXTENDS Integers, Sequences, FiniteSets, TLC

VARIABLES
    now,      \* datetime.datetime.now()
    jobs,     \* Scheduler.jobs: the registry, in insertion order
    pc,       \* "idle", or the sweep in progress: "pending" / "all"
    queue,    \* the jobs (registry indices) the sweep in progress still has to run
    delay,    \* delay_seconds of the run_all in progress
    raised,   \* what the last API call raised ("none" when it returned)
    call,     \* history: the call in progress or just ended ("none" once forgotten)
    ran,      \* history: the jobs that call executed, in order
    snap,     \* history: Scheduler.jobs as it was when that call began
    t0,       \* history: the clock when that call began
    pauses,   \* history: the time.sleep calls that call made
    failed    \* history: the job whose run() raised in that call (0: none)

vars == <<now, jobs, pc, queue, delay, raised, call, ran, snap, t0, pauses, failed>>

-----------------------------------------------------------------------------
(* Bounds of the model *)

MaxJobs == 2          \* jobs registered at once
MaxSteps == 3         \* clock steps taken in a bounded-clock specification
StepsPerDay == 2      \* values the clock takes per day
MaxLate == 3          \* clock steps a sweep may come late, where the clock is unbounded

-----------------------------------------------------------------------------
(* Python's None, for the datetime/time valued fields (all real values >= 0) *)
None == 0 - 1

(* datetime arithmetic *)
SecondsPerDay == 24 * 3600
ClockStep == SecondsPerDay \div StepsPerDay

Date(t) == t \div SecondsPerDay            \* datetime.date(), as a day number
TimeOfDay(t) == t % SecondsPerDay          \* datetime.time(), as seconds since 00:00
isoweekday(t) == (Date(t) % 7) + 1         \* Monday = 1 .. Sunday = 7
HHMM(h, m) == h * 3600 + m * 60            \* datetime.time(h, m)

\* (mutant) the interval is left out: one unit
timedelta_one_unit(unit, interval) ==
    CASE unit = "seconds" -> 1
      [] unit = "minutes" -> 60
      [] unit = "hours"   -> 3600
      [] unit = "days"    -> SecondsPerDay
      [] unit = "weeks"   -> 7 * SecondsPerDay

\* datetime.timedelta of `interval` units (Job._schedule_next_run)
timedelta(unit, interval) ==
    CASE unit = "seconds" -> interval
      [] unit = "minutes" -> interval * 60
      [] unit = "hours"   -> interval * 3600
      [] unit = "days"    -> interval * SecondsPerDay
      [] unit = "weeks"   -> interval * 7 * SecondsPerDay

Units == {"seconds", "minutes", "hours", "days", "weeks"}

(* Job.WEEKDAYS: the identifier of each weekday name *)
WEEKDAYS == [sunday |-> 0, monday |-> 1, tuesday |-> 2, wednesday |-> 3,
             thursday |-> 4, friday |-> 5, saturday |-> 6]

(* The weekday a datetime falls on, as a Job.WEEKDAYS identifier (the calendar
   meaning of isoweekday: 7, Sunday, is identifier 0). *)
WeekdayId(t) == isoweekday(t) % 7

-----------------------------------------------------------------------------
(* Job.__init__ *)
NewJob(interval) ==
    [interval |-> interval, job_func |-> "none", unit |-> "none",
     at_time |-> None, between_times |-> <<>>, run_days |-> <<>>,
     start_run |-> None, last_run |-> None, next_run |-> None, period |-> None]

-----------------------------------------------------------------------------
(* Job._schedule_next_run *)

Min(S) == CHOOSE x \in S : \A y \in S : x <= y

\* list.remove(x): the list without its first element equal to x
RemoveFirst(s, x) ==
    IF \E i \in 1..Len(s) : s[i] = x
    THEN LET i == CHOOSE k \in 1..Len(s) : s[k] = x /\ \A j \in 1..(k - 1) : s[j] # x
         IN  SubSeq(s, 1, i - 1) \o SubSeq(s, i + 1, Len(s))
    ELSE s

\* line 306: whether the day group `day` counts as run already by last_run
GroupHasRun(last_run, day) == isoweekday(last_run) \in day

\* (mutant) the loop stops at the first group that has run
RemainingDays_first_only(run_days, k, acc, last_run) ==
    IF \E i \in k..Len(run_days) : GroupHasRun(last_run, run_days[i])
    THEN RemoveFirst(acc, run_days[CHOOSE i \in k..Len(run_days) :
                                    /\ GroupHasRun(last_run, run_days[i])
                                    /\ \A j \in k..(i - 1) : ~GroupHasRun(last_run, run_days[j])])
    ELSE acc

\* lines 301-307: the day groups still to consider; the loop walks self.run_days
\* (from its k-th group) and removes from the copy `acc`
RECURSIVE RemainingDays(_, _, _, _)
RemainingDays(run_days, k, acc, last_run) ==
    IF k > Len(run_days) THEN acc
    ELSE RemainingDays(run_days, k + 1,
                       IF GroupHasRun(last_run, run_days[k])
                       THEN RemoveFirst(acc, run_days[k]) ELSE acc,
                       last_run)

\* lines 309-311: days.add(random.sample(day, 1)[0]) for each remaining group:
\* every set `days` the random draws can produce
RECURSIVE PickDays(_)
PickDays(groups) ==
    IF groups = <<>> THEN {{}}
    ELSE {{d} \cup rest : d \in Head(groups), rest \in PickDays(Tail(groups))}

\* lines 313-319: the closest picked day from the starting date
ClosestDay(days, starting) ==
    IF days = {} THEN 0
    ELSE Min({(i - isoweekday(starting)) % 7 : i \in days})

\* (mutant) the push is to tomorrow
NotTodayTwice_tomorrow(days_delta, unit, interval, last_run, starting) ==
    IF days_delta = 0 /\ last_run # None /\ Date(last_run) = Date(starting)
    THEN 1
    ELSE days_delta

\* lines 321-327: make sure the job doesn't run today twice
NotTodayTwice(days_delta, unit, interval, last_run, starting) ==
    IF days_delta = 0 /\ last_run # None /\ Date(last_run) = Date(starting)
    THEN CASE unit = "days"  -> 7
           [] unit = "weeks" -> interval * 7
           [] OTHER          -> days_delta
    ELSE days_delta

\* lines 300-328: next_run of a job with run_days, for one outcome `days` of the draws
WeekdayNextRun(job, starting0, days) ==
    LET starting == IF job.last_run # None THEN job.last_run ELSE starting0
        days_delta == NotTodayTwice(ClosestDay(days, starting), job.unit,
                                    job.interval, job.last_run, starting)
    IN  starting + days_delta * SecondsPerDay

\* lines 330-335: every at_time the draw random.randint(0, end - start) can give
BetweenTimes(between_times) ==
    {TimeOfDay(between_times[1] + k) : k \in 0..(between_times[2] - between_times[1])}

\* `if self.at_time:` - a datetime.time is false when it is midnight on the
\* Pythons before 3.5 (midnight_false), and never false from 3.5 on
TimeIsTrue(at_time, midnight_false) ==
    at_time # None /\ ~(midnight_false /\ at_time = 0)

\* line 337: next_run.replace(hour, minute, second, microsecond=0)
ReplaceTime(t, at_time) == Date(t) * SecondsPerDay + at_time

\* lines 336-345: apply at_time, and run today when running for the first time
ApplyAtTime(job, next_run, at_time, t, midnight_false) ==
    IF TimeIsTrue(at_time, midnight_false)
    THEN IF job.last_run = None /\ job.run_days = <<>> /\ at_time > TimeOfDay(t)
         THEN ReplaceTime(next_run, at_time) - SecondsPerDay
         ELSE ReplaceTime(next_run, at_time)
    ELSE next_run

\* lines 295-298
Starting(job, t) == IF job.start_run # None THEN job.start_run ELSE t

\* Job._schedule_next_run at clock t: every job state the draws (and the Python
\* version) can produce
ScheduleNextRun(job, t) ==
    LET period == timedelta(job.unit, job.interval)
        groups == IF job.last_run # None
                  THEN RemainingDays(job.run_days, 1, job.run_days, job.last_run)
                  ELSE job.run_days
        ats    == IF job.between_times # <<>> THEN BetweenTimes(job.between_times)
                  ELSE {job.at_time}
    IN  {[job EXCEPT !.period = period,
                     !.at_time = at,
                     !.next_run = ApplyAtTime(job,
                                     IF job.run_days # <<>>
                                     THEN WeekdayNextRun(job, Starting(job, t), days)
                                     ELSE Starting(job, t) + period,
                                     at, t, mf)] :
            days \in PickDays(groups), at \in ats, mf \in BOOLEAN}

-----------------------------------------------------------------------------
(* Job: should_run, __lt__, run *)

\* (mutant) due only once next_run is strictly past
should_run_strict(job, t) == t > job.next_run

\* Job.should_run (only evaluated when next_run is a datetime)
should_run(job, t) == t >= job.next_run

\* (mutant) the later job first
Lt_later(a, b) == a.next_run > b.next_run

\* Job.__lt__
Lt(a, b) == a.next_run < b.next_run

\* What a work unit can do when called: return, or raise
WorkUnitError == "WorkUnitError"
WorkOutcomes == {"ok", WorkUnitError}

\* (mutant) last_run is stamped before the work unit is called
run_stamps_first(job, t, outcome) ==
    IF job.job_func = "none" THEN {<<"TypeError", job>>}
    ELSE IF outcome # "ok" THEN {<<outcome, [job EXCEPT !.last_run = t]>>}
    ELSE {<<"none", j>> : j \in ScheduleNextRun([job EXCEPT !.last_run = t], t)}

\* Job.run at clock t, the work unit doing `outcome`: every <<raised, job>> the
\* call can end with.  Calling a job_func of None raises TypeError; what the work
\* unit raises leaves run() at once; otherwise last_run is set and
\* _schedule_next_run follows (its assert fails on a unit never set).
run(job, t, outcome) ==
    IF job.job_func = "none" THEN {<<"TypeError", job>>}
    ELSE IF outcome # "ok" THEN {<<outcome, job>>}
    ELSE IF job.unit \notin Units
         THEN {<<"AssertionError", [job EXCEPT !.last_run = t]>>}
         ELSE {<<"none", j>> : j \in ScheduleNextRun([job EXCEPT !.last_run = t], t)}

-----------------------------------------------------------------------------
(* Scheduler: sorted(runnable_jobs), min(self.jobs) *)

Indices(js) == [k \in 1..Len(js) |-> k]

\* (mutant) every job is taken as runnable
RunnableJobs_all(js, t) == Indices(js)

\* line 59: the registry indices of the jobs that should run, in registry order
RunnableJobs(js, t) == SelectSeq(Indices(js), LAMBDA k : should_run(js[k], t))

\* sorted(): a stable sort that compares with Job.__lt__ only.  Insert job i,
\* which came after every job of the sorted list s in the input.
InsertSorted(s, i, js) ==
    LET p == Len(s) - Cardinality({q \in 1..Len(s) : Lt(js[i], js[s[q]])})
    IN  SubSeq(s, 1, p) \o <<i>> \o SubSeq(s, p + 1, Len(s))

RECURSIVE Sorted(_, _)
Sorted(idx, js) ==
    IF idx = <<>> THEN <<>>
    ELSE InsertSorted(Sorted(SubSeq(idx, 1, Len(idx) - 1), js), idx[Len(idx)], js)

\* min(self.jobs) from its k-th element on, `best` being the least so far: the
\* index of the least job, or 0 when a comparison raises TypeError (a datetime
\* compared with None; None < None raises on Python 3 and is False on Python 2)
RECURSIVE MinJob(_, _, _, _)
MinJob(js, k, best, py3) ==
    IF k > Len(js) THEN best
    ELSE LET a == js[k].next_run
             b == js[best].next_run
         IN  IF a = None \/ b = None
             THEN IF a = None /\ b = None /\ ~py3
                  THEN MinJob(js, k + 1, best, py3)
                  ELSE 0
             ELSE MinJob(js, k + 1, IF Lt(js[k], js[best]) THEN k ELSE best, py3)

\* Scheduler.next_run: every outcome <<raised, result>> of the query
NextRunOutcomes(js) ==
    IF js = <<>> THEN {<<"none", None>>}
    ELSE {IF MinJob(js, 2, 1, py3) = 0 THEN <<"TypeError", None>>
          ELSE <<"none", js[MinJob(js, 2, 1, py3)].next_run>> : py3 \in BOOLEAN}

\* What a query hands back: <<>> for Python's None, <<v>> for the value v
Returned(v) == IF v = None THEN <<>> ELSE <<v>>

\* Scheduler.idle_seconds: (self.next_run - now).total_seconds(); None minus a
\* datetime raises TypeError
IdleSecondsOutcomes(js, t) ==
    {IF o[1] # "none" THEN <<o[1], <<>> >>
     ELSE IF o[2] = None THEN <<"TypeError", <<>> >>
     ELSE <<"none", <<o[2] - t>> >> : o \in NextRunOutcomes(js)}

-----------------------------------------------------------------------------
(* Job.on: weekday names.  A Python string is a sequence of characters. *)

Spell(n) ==
    CASE n = "sunday"    -> <<"s", "u", "n", "d", "a", "y">>
      [] n = "monday"    -> <<"m", "o", "n", "d", "a", "y">>
      [] n = "tuesday"   -> <<"t", "u", "e", "s", "d", "a", "y">>
      [] n = "wednesday" -> <<"w", "e", "d", "n", "e", "s", "d", "a", "y">>
      [] n = "thursday"  -> <<"t", "h", "u", "r", "s", "d", "a", "y">>
      [] n = "friday"    -> <<"f", "r", "i", "d", "a", "y">>
      [] n = "saturday"  -> <<"s", "a", "t", "u", "r", "d", "a", "y">>

\* str.lower(), on the capitals the inputs use
LowerChar(c) ==
    CASE c = "M" -> "m" [] c = "S" -> "s" [] c = "T" -> "t" [] c = "W" -> "w"
      [] c = "F" -> "f" [] OTHER -> c
lower(str) == [k \in 1..Len(str) |-> LowerChar(str[k])]

\* str.startswith
startswith(str, prefix) ==
    Len(prefix) <= Len(str) /\ SubSeq(str, 1, Len(prefix)) = prefix

\* str.split('|'): the list of the pieces between the pipes
RECURSIVE split(_)
split(str) ==
    IF \E k \in 1..Len(str) : str[k] = "|"
    THEN LET k == CHOOSE i \in 1..Len(str) : str[i] = "|" /\ \A j \in 1..(i - 1) : str[j] # "|"
         IN  <<SubSeq(str, 1, k - 1)>> \o split(SubSeq(str, k + 1, Len(str)))
    ELSE <<str>>

\* lines 230-234: the day_or set of one argument of on()
DayOr(day) ==
    {WEEKDAYS[n] : n \in {m \in DOMAIN WEEKDAYS :
        \E k \in 1..Len(split(day)) : startswith(Spell(m), lower(split(day)[k]))}}

\* lines 228-238: weeknums
RECURSIVE Weeknums(_)
Weeknums(days) ==
    IF days = <<>> THEN <<>>
    ELSE (IF DayOr(Head(days)) # {} THEN <<DayOr(Head(days))>> ELSE <<>>)
         \o Weeknums(Tail(days))

-----------------------------------------------------------------------------
(* The state after construction: default_scheduler = Scheduler() *)

Init ==
    /\ now = 0
    /\ jobs = <<>>
    /\ pc = "idle"
    /\ queue = <<>>
    /\ delay = 0
    /\ raised = "none"
    /\ call = "none"
    /\ ran = <<>>
    /\ snap = <<>>
    /\ t0 = 0
    /\ pauses = 0
    /\ failed = 0

\* The history of a call is kept until the next step after the call ended
Forget ==
    IF pc = "idle"
    THEN /\ call' = "none" /\ ran' = <<>> /\ snap' = <<>>
         /\ t0' = 0 /\ pauses' = 0 /\ failed' = 0
    ELSE UNCHANGED <<call, ran, snap, t0, pauses, failed>>

\* ... and so is what it raised
ForgetRaised == raised' = IF pc = "idle" THEN "none" ELSE raised

\* A sweep or a run begins: what the history remembers of it
Begin(name) ==
    /\ call' = name
    /\ snap' = jobs
    /\ t0' = now
    /\ ran' = <<>>
    /\ pauses' = 0

\* The job the fluent chain in progress configures: the one every() returned last
Chaining == pc = "idle" /\ jobs # <<>> /\ jobs[Len(jobs)].job_func = "none"
Handle == jobs[Len(jobs)]
SetHandle(job) == jobs' = [jobs EXCEPT ![Len(jobs)] = job]

-----------------------------------------------------------------------------
(* Configuration *)

\* Scheduler.every
Every(interval) ==
    /\ pc = "idle"
    /\ Len(jobs) < MaxJobs
    /\ jobs' = Append(jobs, NewJob(interval))
    /\ raised' = "none"
    /\ Forget
    /\ UNCHANGED <<now, pc, queue, delay>>

\* Job.seconds, minutes, hours, days, weeks
PluralUnit(unit) ==
    /\ Chaining
    /\ SetHandle([Handle EXCEPT !.unit = unit])
    /\ raised' = "none"
    /\ Forget
    /\ UNCHANGED <<now, pc, queue, delay>>

\* Job.second, minute, hour, day, week: assert self.interval == 1
SingularUnit(unit) ==
    /\ Chaining
    /\ IF Handle.interval = 1
       THEN SetHandle([Handle EXCEPT !.unit = unit]) /\ raised' = "none"
       ELSE UNCHANGED jobs /\ raised' = "AssertionError"
    /\ Forget
    /\ UNCHANGED <<now, pc, queue, delay>>

\* Job.on
JobOn(days) ==
    /\ Chaining
    /\ SetHandle([Handle EXCEPT !.run_days = Weeknums(days)])
    /\ raised' = "none"
    /\ Forget
    /\ UNCHANGED <<now, pc, queue, delay>>

\* Scheduler.on: every(), unit = 'days', Job.on
SchedulerOn(days) ==
    /\ pc = "idle"
    /\ Len(jobs) < MaxJobs
    /\ jobs' = Append(jobs, [NewJob(1) EXCEPT !.unit = "days",
                                               !.run_days = Weeknums(days)])
    /\ raised' = "none"
    /\ Forget
    /\ UNCHANGED <<now, pc, queue, delay>>

\* (mutant) the time is stored before the hour and the minute are checked
At_stores_first(hour, minute) ==
    /\ Chaining
    /\ IF Handle.unit = "days"
       THEN /\ SetHandle([Handle EXCEPT !.at_time = HHMM(hour, minute)])
            /\ raised' = IF 0 <= hour /\ hour <= 23 /\ 0 <= minute /\ minute <= 59
                         THEN "none" ELSE "AssertionError"
       ELSE UNCHANGED jobs /\ raised' = "AssertionError"
    /\ Forget
    /\ UNCHANGED <<now, pc, queue, delay>>

\* Job.at, time_str giving the integers hour and minute
At(hour, minute) ==
    /\ Chaining
    /\ IF Handle.unit = "days" /\ 0 <= hour /\ hour <= 23 /\ 0 <= minute /\ minute <= 59
       THEN SetHandle([Handle EXCEPT !.at_time = HHMM(hour, minute)])
            /\ raised' = "none"
       ELSE UNCHANGED jobs /\ raised' = "AssertionError"
    /\ Forget
    /\ UNCHANGED <<now, pc, queue, delay>>

\* Job.between, time_str giving the clock times start and end
Between(start, end) ==
    /\ Chaining
    /\ SetHandle([Handle EXCEPT !.between_times = <<start, end>>])
    /\ raised' = "none"
    /\ Forget
    /\ UNCHANGED <<now, pc, queue, delay>>

\* Job.starting, date_str giving the day number `day`
StartingOn(day) ==
    /\ Chaining
    /\ SetHandle([Handle EXCEPT !.start_run = day * SecondsPerDay])
    /\ raised' = "none"
    /\ Forget
    /\ UNCHANGED <<now, pc, queue, delay>>

\* Job.do: bind the work unit, then _schedule_next_run (which asserts the unit)
Do ==
    /\ Chaining
    /\ IF Handle.unit \in Units
       THEN /\ \E job \in ScheduleNextRun([Handle EXCEPT !.job_func = "work"], now) :
                 SetHandle(job)
            /\ raised' = "none"
       ELSE /\ SetHandle([Handle EXCEPT !.job_func = "work"])
            /\ raised' = "AssertionError"
    /\ Forget
    /\ UNCHANGED <<now, pc, queue, delay>>

\* Scheduler.clear
Clear ==
    /\ pc = "idle"
    /\ jobs' = <<>>
    /\ raised' = "none"
    /\ Forget
    /\ UNCHANGED <<now, pc, queue, delay>>

-----------------------------------------------------------------------------
(* The clock *)

MaxTime == MaxSteps * ClockStep

\* Time passes (also while a sweep is between two jobs)
Tick ==
    /\ now + ClockStep <= MaxTime
    /\ now' = now + ClockStep
    /\ Forget
    /\ ForgetRaised
    /\ UNCHANGED <<jobs, pc, queue, delay>>

-----------------------------------------------------------------------------
(* Sweeps *)

\* Scheduler.run_pending, up to the first job.run(): the generator evaluates
\* should_run of every job (TypeError on a job without next_run) and sorted()
\* orders the runnable ones
RunPendingStart ==
    /\ pc = "idle"
    /\ Begin("run_pending")
    /\ failed' = 0
    /\ IF \E k \in 1..Len(jobs) : jobs[k].next_run = None
       THEN raised' = "TypeError" /\ UNCHANGED <<pc, queue>>
       ELSE /\ queue' = Sorted(RunnableJobs(jobs, now), jobs)
            /\ raised' = "none"
            /\ pc' = IF queue' = <<>> THEN "idle" ELSE "pending"
    /\ UNCHANGED <<now, jobs, delay>>

\* Scheduler.run_all, up to the first job.run()
RunAllStart(delay_seconds) ==
    /\ pc = "idle"
    /\ Begin("run_all")
    /\ failed' = 0
    /\ delay' = delay_seconds
    /\ queue' = Indices(jobs)
    /\ raised' = "none"
    /\ pc' = IF queue' = <<>> THEN "idle" ELSE "all"
    /\ UNCHANGED <<now, jobs>>

\* line 73: the time.sleep calls run_all makes after one job.run(), `rest` being
\* the jobs it has still to run
SleepsAfterRun(rest) == 1

\* One iteration of the sweep's loop: job.run() of the next job, whose work unit
\* does `outcome`; run_all then sleeps.  The call ends when job.run() raises or
\* no job is left.
SweepStep(outcome) ==
    /\ pc \in {"pending", "all"}
    /\ \E r \in run(jobs[Head(queue)], now, outcome) :
          /\ jobs' = [jobs EXCEPT ![Head(queue)] = r[2]]
          /\ raised' = r[1]
          /\ IF r[1] # "none"
             THEN /\ pc' = "idle"
                  /\ queue' = <<>>
                  /\ failed' = Head(queue)
                  /\ UNCHANGED <<now, ran, pauses>>
             ELSE /\ ran' = Append(ran, Head(queue))
                  /\ failed' = 0
                  /\ queue' = Tail(queue)
                  /\ IF pc = "all"
                     THEN /\ pauses' = pauses + SleepsAfterRun(Tail(queue))
                          /\ now' = now + SleepsAfterRun(Tail(queue)) * delay
                     ELSE UNCHANGED <<now, pauses>>
                  /\ pc' = IF Tail(queue) = <<>> THEN "idle" ELSE pc
    /\ UNCHANGED <<call, snap, t0, delay>>

\* Job.run called directly on the i-th job
JobRun(i, outcome) ==
    /\ pc = "idle"
    /\ i \in 1..Len(jobs)
    /\ call' = "run" /\ snap' = jobs /\ t0' = now /\ pauses' = 0
    /\ \E r \in run(jobs[i], now, outcome) :
          /\ jobs' = [jobs EXCEPT ![i] = r[2]]
          /\ ran' = IF r[1] = "none" THEN <<i>> ELSE <<>>
          /\ failed' = IF r[1] = "none" THEN 0 ELSE i
          /\ raised' = r[1]
    /\ UNCHANGED <<now, pc, queue, delay>>

-----------------------------------------------------------------------------
(* Spec: the registry and its sweeps, over jobs of plain units *)

SweepIntervals == {1}
SweepUnits == {"hours", "days"}
Delays == {0, ClockStep}

Next ==
    \/ \E i \in SweepIntervals : Every(i)
    \/ \E u \in SweepUnits : PluralUnit(u)
    \/ Do
    \/ Clear
    \/ Tick
    \/ RunPendingStart
    \/ \E d \in Delays : now + Len(jobs) * d <= MaxTime /\ RunAllStart(d)
    \/ \E o \in WorkOutcomes : SweepStep(o)
    \/ \E i \in 1..MaxJobs, o \in WorkOutcomes : JobRun(i, o)

Spec == Init /\ [][Next]_vars

-----------------------------------------------------------------------------
(* Claims about the sweeps (Spec) *)

Range(seq) == {seq[k] : k \in 1..Len(seq)}
NoRepeat(seq) == \A a, b \in 1..Len(seq) : a # b => seq[a] # seq[b]

\* A call of `name` has just returned normally
Returned_(name) == call = name /\ pc = "idle" /\ raised = "none"

\* The jobs that were due when the call began
DueAtStart == {k \in 1..Len(snap) : snap[k].next_run # None /\ t0 >= snap[k].next_run}

\* C1: one call of run_pending executes no job twice, and a call that returns has
\* executed exactly the jobs that were due when it began, each once and with one
\* recomputation from the time of the run - however many periods had been missed.
C1_OncePerSweep ==
    call = "run_pending" =>
        /\ NoRepeat(ran)
        /\ Range(ran) \subseteq DueAtStart
        /\ Returned_("run_pending") =>
              /\ Range(ran) = DueAtStart
              /\ \A k \in DueAtStart :
                    /\ jobs[k].last_run \in t0..now
                    /\ jobs[k].next_run = jobs[k].last_run + jobs[k].period

\* C1 witness: a returned sweep ran a job that was two or more periods late
C1_Witness ==
    /\ Returned_("run_pending")
    /\ \E k \in Range(ran) : t0 - snap[k].next_run >= 2 * snap[k].period

\* C2: when a work unit raises, the call ends with that very error, the job that
\* raised is exactly as before the call (and still due if it was due), the jobs
\* run before it keep their new last_run/next_run, and no other job was touched.
C2_FailedRunLeavesJob ==
    (pc = "idle" /\ raised = WorkUnitError) =>
        /\ call \in {"run", "run_pending", "run_all"}
        /\ failed \in 1..Len(jobs)
        /\ failed \notin Range(ran)
        /\ jobs[failed] = snap[failed]
        /\ (failed \in DueAtStart => now >= jobs[failed].next_run)
        /\ \A k \in Range(ran) :
              /\ jobs[k].last_run \in t0..now
              /\ jobs[k].next_run = jobs[k].last_run + jobs[k].period
        /\ \A k \in 1..Len(jobs) : k \notin Range(ran) => jobs[k] = snap[k]

\* C2 witness: a run_pending sweep ran one job, and the next job's work unit raised
C2_Witness ==
    /\ pc = "idle" /\ raised = WorkUnitError /\ call = "run_pending"
    /\ ran # <<>>
    /\ failed \in DueAtStart

\* C3: a run_pending sweep executes in ascending order of the next_run the jobs had
\* when it began, equal next_run in registry order; and whenever the sweep is
\* about to execute its next job, every job executed so far is already
\* recomputed (last_run set in the sweep, next_run after it) and no other job is.
C3_SweepOrder ==
    call = "run_pending" =>
        /\ \A a, b \in 1..Len(ran) : a < b =>
              \/ snap[ran[a]].next_run < snap[ran[b]].next_run
              \/ /\ snap[ran[a]].next_run = snap[ran[b]].next_run
                 /\ ran[a] < ran[b]
        /\ \A a, b \in 1..Len(ran) : a < b => jobs[ran[a]].last_run <= jobs[ran[b]].last_run
        /\ \A k \in 1..Len(jobs) :
              IF k \in Range(ran)
              THEN /\ jobs[k].last_run \in t0..now
                   /\ jobs[k].next_run = jobs[k].last_run + jobs[k].period
              ELSE jobs[k] = snap[k]

\* C3 witness: a sweep ran the second registered job before the first, and is
\* done with both
C3_Witness ==
    /\ Returned_("run_pending")
    /\ ran = <<2, 1>>

\* C4: run_pending does not touch a job that was not due when the call began
C4_NonDueUntouched ==
    call = "run_pending" =>
        \A k \in 1..Len(snap) :
            (snap[k].next_run # None /\ t0 < snap[k].next_run) =>
                k \notin Range(ran) /\ jobs[k] = snap[k]

\* C4 witness: a returned sweep ran a job while another job was not due
C4_Witness ==
    /\ Returned_("run_pending")
    /\ ran # <<>>
    /\ \E k \in 1..Len(snap) : snap[k].next_run # None /\ t0 < snap[k].next_run

\* C5: a run_all that returns has executed every registered job once, in registry
\* order, due or not, each with last_run set and next_run recomputed, and has
\* paused only between consecutive executions: n jobs, n - 1 pauses.
C5_RunAllPauses ==
    Returned_("run_all") =>
        /\ ran = Indices(snap)
        /\ \A k \in 1..Len(jobs) :
              /\ jobs[k].last_run \in t0..now
              /\ jobs[k].next_run = jobs[k].last_run + jobs[k].period
        /\ (snap # <<>> => pauses = Len(snap) - 1)

\* The minimum next_run over the registered jobs
MinNextRun(js) == Min({js[k].next_run : k \in 1..Len(js)})

\* C6: between calls, the next_run query returns the minimum next_run of the
\* registered jobs, and None exactly when the registry is empty.
C6_NextRunIsMin ==
    pc = "idle" =>
        \A o \in NextRunOutcomes(jobs) :
            /\ o[1] = "none"
            /\ (o[2] = None) <=> (jobs = <<>>)
            /\ jobs # <<>> => o[2] = MinNextRun(jobs)

\* C7: with no job registered, idle_seconds returns None and does not raise.
C7_IdleSecondsEmpty ==
    (pc = "idle" /\ jobs = <<>>) =>
        \A o \in IdleSecondsOutcomes(jobs, now) : o[1] = "none" /\ o[2] = <<>>

\* C20: between calls, every registered job has a work unit and a next_run, so
\* that no sweep or query fails on it.
C20_RegisteredJobsReady ==
    pc = "idle" =>
        \A k \in 1..Len(jobs) :
            jobs[k].job_func # "none" /\ jobs[k].next_run # None

-----------------------------------------------------------------------------
(* A clock that never stops.  The code reads a datetime only through          *)
(* differences, comparisons, the weekday and the time of day, so moving every *)
(* datetime of the state back by whole weeks changes nothing it can observe:  *)
(* the clock is kept within Horizon that way.                                 *)

Week == 7 * SecondsPerDay
Horizon == 3 * Week

BackAWeek(t) == IF t = None THEN None ELSE t - Week

\* Time passes between two calls; the registered jobs are not touched
TickOn ==
    /\ pc = "idle"
    /\ IF now + ClockStep >= Horizon
       THEN /\ now' = now + ClockStep - Week
            /\ jobs' = [k \in DOMAIN jobs |->
                          [jobs[k] EXCEPT !.start_run = BackAWeek(@),
                                          !.last_run = BackAWeek(@),
                                          !.next_run = BackAWeek(@)]]
       ELSE /\ now' = now + ClockStep
            /\ UNCHANGED jobs
    /\ Forget
    /\ ForgetRaised
    /\ UNCHANGED <<pc, queue, delay>>

\* The one job of the weekday specifications has been scheduled by do()
Scheduled == jobs # <<>> /\ jobs[1].next_run # None

-----------------------------------------------------------------------------
(* SpecWeek: one job on two or more disjoint weekday groups, under a caller  *)
(* that loops  run_pending(); sleep(one clock step)  for ever, with work     *)
(* units that return.                                                        *)

Str(w) == Spell(w)
Pipe(a, b) == a \o <<"|">> \o b
Mon == <<"m", "o", "n">>
Tue == <<"T", "u", "e">>
Wed == <<"w", "e", "d">>
Thu == <<"t", "h", "u">>
Sat == <<"S", "a", "t">>
Sun == <<"s", "u", "n">>

WeekArgs ==
    { <<Mon, Wed>>,
      <<Sun, Wed>>,
      <<Pipe(Mon, Tue), Pipe(Thu, Sat)>>,
      <<Pipe(Sat, Sun), Str("wednesday")>> }

\* The process starts at the beginning of any day of the week
InitAnyDay ==
    /\ now \in {d * SecondsPerDay : d \in 0..6}
    /\ jobs = <<>>
    /\ pc = "idle"
    /\ queue = <<>>
    /\ delay = 0
    /\ raised = "none"
    /\ call = "none"
    /\ ran = <<>>
    /\ snap = <<>>
    /\ t0 = 0
    /\ pauses = 0
    /\ failed = 0

NextWeek ==
    \/ \E days \in WeekArgs : jobs = <<>> /\ SchedulerOn(days)
    \/ Do
    \/ Scheduled /\ call # "run_pending" /\ RunPendingStart
    \/ SweepStep("ok")
    \/ Scheduled /\ call = "run_pending" /\ TickOn

SpecWeek == InitAnyDay /\ [][NextWeek]_vars /\ WF_vars(NextWeek)

\* The day groups the jobs of SpecWeek can have
WeekGroups == UNION {Range(Weeknums(days)) : days \in WeekArgs}

\* A sweep has just run the job, on a weekday of group g
RanOn(g) ==
    /\ call = "run_pending" /\ ran # <<>>
    /\ WeekdayId(jobs[1].last_run) \in g

\* C8: with two or more disjoint weekday groups, polled at every clock step and
\* never failing, every group fires again and again: from any state on, each
\* group of the job sees a run on one of its weekdays.
C8_EveryGroupFires ==
    \A g \in WeekGroups :
        (Scheduled /\ g \in Range(jobs[1].run_days)) ~> RanOn(g)

-----------------------------------------------------------------------------
(* SpecOn: one job made by Scheduler.on with a single weekday group, swept by *)
(* run_pending (up to MaxLate clock steps late) and by run_all on any day.    *)

OnArgs ==
    { <<Pipe(Mon, Wed)>>, <<Pipe(Sat, Sun)>>, <<Sun>>, <<Str("thursday")>> }

AtTimes == { <<6, 0>>, <<18, 30>> }

\* No scheduled job is left waiting more than MaxLate clock steps
Polled ==
    \A k \in 1..Len(jobs) :
        jobs[k].next_run # None => now + ClockStep <= jobs[k].next_run + MaxLate * ClockStep

NextOn ==
    \/ \E days \in OnArgs : jobs = <<>> /\ SchedulerOn(days)
    \/ \E hm \in AtTimes : At(hm[1], hm[2])
    \/ Do
    \/ Clear
    \/ Polled /\ TickOn
    \/ Scheduled /\ RunPendingStart
    \/ Scheduled /\ RunAllStart(0)
    \/ \E o \in WorkOutcomes : SweepStep(o)

SpecOn == InitAnyDay /\ [][NextOn]_vars

\* C9: a job made by on() with one weekday group has, whenever it is scheduled
\* (by do() and after every run), a next_run on a weekday of the group.
C9_NextRunInGroup ==
    \A k \in 1..Len(jobs) :
        (jobs[k].next_run # None /\ Len(jobs[k].run_days) = 1) =>
            WeekdayId(jobs[k].next_run) \in jobs[k].run_days[1]

\* C9 witness: run_all has just run the job on a weekday outside its group
C9_Witness ==
    /\ Returned_("run_all") /\ ran = <<1>>
    /\ Len(jobs[1].run_days) = 1
    /\ WeekdayId(jobs[1].last_run) \notin jobs[1].run_days[1]
    /\ jobs[1].last_run = now

-----------------------------------------------------------------------------
(* SpecDays: one job of unit days, with any of at(), between(), on() and     *)
(* starting(), over a bounded clock that starts on a Monday at 00:00.        *)

DayIntervals == {1, 2}
DayArgs == { <<Pipe(Mon, Tue)>>, <<Mon, Tue>> }
Windows == { <<HHMM(6, 0), HHMM(6, 0)>> }
StartDays == {0, 1}

NextDays ==
    \/ \E i \in DayIntervals : jobs = <<>> /\ Every(i)
    \/ PluralUnit("days")
    \/ \E days \in DayArgs : JobOn(days)
    \/ \E days \in DayArgs : jobs = <<>> /\ SchedulerOn(days)
    \/ \E hm \in AtTimes : At(hm[1], hm[2])
    \/ \E w \in Windows : Between(w[1], w[2])
    \/ \E d \in StartDays : StartingOn(d)
    \/ Do
    \/ Clear
    \/ Tick
    \/ RunPendingStart
    \/ RunAllStart(0)
    \/ \E o \in WorkOutcomes : SweepStep(o)

SpecDays == Init /\ [][NextDays]_vars

\* C10: a job of unit days that has run never has its next_run on the calendar
\* date of its last_run.
C10_NeverTodayAgain ==
    \A k \in 1..Len(jobs) :
        (jobs[k].unit = "days" /\ jobs[k].last_run # None /\ jobs[k].next_run # None) =>
            Date(jobs[k].next_run) # Date(jobs[k].last_run)

-----------------------------------------------------------------------------
(* SpecApi: one job built through the whole fluent API - every unit, both    *)
(* kinds of unit accessor, on(), at(), between() and starting(), with        *)
(* arguments the calls reject or ignore among them - then swept, over a      *)
(* bounded clock that starts on a Monday at 00:00.                           *)

Xyz == <<"x", "y", "z">>

ApiIntervals == {1, 2}
ApiOnArgs == { <<Mon>>, <<Tue>>, <<Xyz>> }
ApiTimes == { <<0, 0>>, <<6, 0>>, <<18, 30>>, <<24, 0>>, <<6, 60>> }

NextApi ==
    \/ \E i \in ApiIntervals : jobs = <<>> /\ Every(i)
    \/ \E u \in Units : PluralUnit(u)
    \/ \E u \in Units : SingularUnit(u)
    \/ \E days \in ApiOnArgs : JobOn(days)
    \/ \E hm \in ApiTimes : At(hm[1], hm[2])
    \/ \E w \in Windows : Between(w[1], w[2])
    \/ \E d \in StartDays : StartingOn(d)
    \/ Do
    \/ Clear
    \/ Tick
    \/ RunPendingStart
    \/ RunAllStart(0)
    \/ \E o \in WorkOutcomes : SweepStep(o)

SpecApi == Init /\ [][NextApi]_vars

\* The step is the do() that schedules the job of the chain for the first time
FirstDo ==
    /\ jobs # <<>> /\ Len(jobs') = Len(jobs)
    /\ jobs[Len(jobs)].next_run = None
    /\ jobs'[Len(jobs)].next_run # None

\* The job that step has scheduled
ScheduledJob == jobs'[Len(jobs)]

\* C11: a job with a start date that has never run has its next_run at or after
\* 00:00 of the start date, so that no run_pending sweep executes it earlier.
C11_NotBeforeStart ==
    \A k \in 1..Len(jobs) :
        (jobs[k].start_run # None /\ jobs[k].next_run # None) =>
            /\ jobs[k].last_run = None => jobs[k].next_run >= jobs[k].start_run
            /\ (call = "run_pending" /\ k \in Range(ran) /\ snap[k].last_run = None) =>
                  jobs[k].last_run >= jobs[k].start_run

\* C12: every().day.at(T).do(f), with no weekday and no start date, at the
\* instant now: next_run is today at T when T is later than now's time of day, and
\* tomorrow at T otherwise.
C12_FirstRunTodayOrTomorrow ==
    [][(/\ FirstDo
        /\ ScheduledJob.unit = "days" /\ ScheduledJob.interval = 1
        /\ ScheduledJob.at_time # None /\ ScheduledJob.between_times = <<>>
        /\ ScheduledJob.run_days = <<>> /\ ScheduledJob.start_run = None)
       => ScheduledJob.next_run =
             IF ScheduledJob.at_time > TimeOfDay(now)
             THEN Date(now) * SecondsPerDay + ScheduledJob.at_time
             ELSE (Date(now) + 1) * SecondsPerDay + ScheduledJob.at_time]_vars

\* The length of each unit in seconds
UnitSeconds == [seconds |-> 1, minutes |-> 60, hours |-> 3600,
                days |-> 86400, weeks |-> 604800]

\* C13: the first do() of a job with a unit and an interval and nothing else (no
\* at, between, weekday or start date) sets next_run to the instant of the call
\* plus interval units, and period to interval units.
C13_FirstRunAfterOnePeriod ==
    [][(/\ FirstDo
        /\ ScheduledJob.at_time = None /\ ScheduledJob.between_times = <<>>
        /\ ScheduledJob.run_days = <<>> /\ ScheduledJob.start_run = None)
       => /\ ScheduledJob.unit \in Units
          /\ ScheduledJob.period = ScheduledJob.interval * UnitSeconds[ScheduledJob.unit]
          /\ ScheduledJob.next_run = now + ScheduledJob.period]_vars

\* C13 witness: a job of every 2 weeks and nothing else has just been scheduled,
\* half a day into the run
C13_Witness ==
    /\ jobs # <<>> /\ raised = "none" /\ call = "none" /\ now > 0
    /\ Handle.unit = "weeks" /\ Handle.interval = 2
    /\ Handle.at_time = None /\ Handle.between_times = <<>>
    /\ Handle.run_days = <<>> /\ Handle.start_run = None
    /\ Handle.last_run = None /\ Handle.next_run = now + 14 * SecondsPerDay

\* A weekday name as the documentation of on() has it: the string, in any case,
\* is a leading part of the name of exactly one weekday
IsWeekdayName(str) ==
    Cardinality({m \in DOMAIN WEEKDAYS : startswith(Spell(m), lower(str))}) = 1

\* An argument list of on() with an invalid weekday name in it
HasInvalidName(days) ==
    \E a \in 1..Len(days) : \E k \in 1..Len(split(days[a])) :
        ~IsWeekdayName(split(days[a])[k])

\* C14: on() called with an invalid weekday name fails at the call.
C14_InvalidWeekdayRejected ==
    [][\A days \in ApiOnArgs :
          (JobOn(days) /\ HasInvalidName(days)) => raised' # "none"]_vars

\* C15: at() fails at the call exactly when the unit is not days or the hour or
\* the minute is out of range, and then leaves the job as it was; otherwise it
\* returns.  A singular unit accessor fails at the call when the interval is not
\* 1, and then leaves the job as it was.
C15_RejectedCallsLeaveJob ==
    [][/\ \A hm \in ApiTimes :
            At(hm[1], hm[2]) =>
                IF Handle.unit # "days" \/ hm[1] \notin 0..23 \/ hm[2] \notin 0..59
                THEN raised' = "AssertionError" /\ jobs' = jobs
                ELSE raised' = "none"
       /\ \A u \in Units :
            (SingularUnit(u) /\ Handle.interval # 1) =>
                raised' = "AssertionError" /\ jobs' = jobs]_vars

\* C15 witness: at() has just failed on a job whose unit is days (interval 1, so no
\* unit accessor failed), leaving the at-time of an earlier at() in place
C15_Witness ==
    /\ Chaining /\ raised = "AssertionError"
    /\ Handle.interval = 1 /\ Handle.unit = "days"
    /\ Handle.at_time = HHMM(18, 30)

\* C18: a job that has run and been rescheduled has its next_run strictly after
\* the last_run just recorded, so it is not due again at the instant it finished.
C18_NextRunAfterLastRun ==
    \A k \in 1..Len(jobs) :
        (jobs[k].last_run # None /\ jobs[k].unit \in Units) =>
            jobs[k].next_run > jobs[k].last_run

\* C19: the do() that schedules a job without a start date for the first time
\* leaves its next_run strictly after the instant of the call.
C19_NotDueWhenConfigured ==
    [][(FirstDo /\ ScheduledJob.start_run = None) => ScheduledJob.next_run > now]_vars

-----------------------------------------------------------------------------
(* SpecBetween: one job with a time window of one minute (61 possible draws), *)
(* with or without an at() before it, scheduled and swept over the bounded    *)
(* clock.                                                                     *)

BetweenUnits == {"days", "hours"}
BetweenWindows == { <<HHMM(0, 0), HHMM(0, 1)>>, <<HHMM(18, 30), HHMM(18, 31)>> }

NextBetween ==
    \/ jobs = <<>> /\ Every(1)
    \/ \E u \in BetweenUnits : PluralUnit(u)
    \/ \E hm \in AtTimes : At(hm[1], hm[2])
    \/ \E w \in BetweenWindows : Between(w[1], w[2])
    \/ Do
    \/ Clear
    \/ Tick
    \/ RunPendingStart
    \/ RunAllStart(0)
    \/ \E o \in WorkOutcomes : SweepStep(o)

SpecBetween == Init /\ [][NextBetween]_vars

\* C16: whenever a job with a time window S-E is scheduled (by do() and after
\* every run), its at_time lies within [S, E], whatever at() had set, and the
\* time of day of next_run is that at_time.
C16_WindowBounds ==
    \A k \in 1..Len(jobs) :
        (jobs[k].between_times # <<>> /\ jobs[k].next_run # None) =>
            /\ jobs[k].at_time \in jobs[k].between_times[1]..jobs[k].between_times[2]
            /\ TimeOfDay(jobs[k].next_run) = jobs[k].at_time

-----------------------------------------------------------------------------
(* SpecGroups: one job made by Scheduler.on with weekday groups that share a  *)
(* weekday, swept by run_pending (up to MaxLate clock steps late) and by      *)
(* run_all on any day, over the clock that never stops.                       *)

GroupArgs ==
    { <<Pipe(Mon, Tue), Pipe(Mon, Wed), Thu>>,
      <<Mon, Mon>>,
      <<Pipe(Sun, Mon), Pipe(Sun, Tue)>>,
      <<Pipe(Mon, Tue), Wed>> }

NextGroups ==
    \/ \E days \in GroupArgs : jobs = <<>> /\ SchedulerOn(days)
    \/ Do
    \/ Clear
    \/ Polled /\ TickOn
    \/ Scheduled /\ RunPendingStart
    \/ Scheduled /\ RunAllStart(0)
    \/ \E o \in WorkOutcomes : SweepStep(o)

SpecGroups == InitAnyDay /\ [][NextGroups]_vars

\* The positions of the groups that hold the weekday number of last_run
Matching(job) ==
    {i \in 1..Len(job.run_days) : isoweekday(job.last_run) \in job.run_days[i]}

\* The groups but the first of those
AllButFirstMatching(job) ==
    SubSeq(job.run_days, 1, Min(Matching(job)) - 1)
        \o SubSeq(job.run_days, Min(Matching(job)) + 1, Len(job.run_days))

\* The whole days from last_run to next_run
DaysOn(job) == Date(job.next_run) - Date(job.last_run)

\* A job with weekday groups that has run and been rescheduled
Rerun(job) == job.run_days # <<>> /\ job.last_run # None /\ job.next_run # None

\* C17 as stated: when more than one group holds last_run's weekday, only the
\* first of them is left out, and next_run is the closest of the days picked
\* from all the other groups (a whole week on when that is today).
C17_OnlyFirstGroupRemoved ==
    \A k \in 1..Len(jobs) :
        (Rerun(jobs[k]) /\ Cardinality(Matching(jobs[k])) > 1) =>
            \E days \in PickDays(AllButFirstMatching(jobs[k])) :
                DaysOn(jobs[k]) = IF ClosestDay(days, jobs[k].last_run) = 0 THEN 7
                                  ELSE ClosestDay(days, jobs[k].last_run)

\* C17 as amended: every group that holds last_run's weekday number is left out.
\* next_run is 1 to 7 days after last_run, on a weekday of a group that does not
\* hold that number - or exactly a week on when every group holds it.
C17_EveryMatchingGroupRemoved ==
    \A k \in 1..Len(jobs) :
        Rerun(jobs[k]) =>
            LET rest == {jobs[k].run_days[i] :
                            i \in (1..Len(jobs[k].run_days)) \ Matching(jobs[k])}
            IN  IF rest = {} THEN DaysOn(jobs[k]) = 7
                ELSE /\ DaysOn(jobs[k]) \in 1..7
                     /\ WeekdayId(jobs[k].next_run) \in UNION rest

\* C17 witness: the job on mon|tue, mon|wed, thu has just run on a Monday (two
\* groups hold it) and is next due that Thursday
C17_Witness ==
    /\ pc = "idle" /\ raised = "none" /\ ran = <<1>>
    /\ Len(jobs[1].run_days) = 3
    /\ jobs[1].last_run = now /\ isoweekday(now) = 1
    /\ Cardinality(Matching(jobs[1])) = 2
    /\ DaysOn(jobs[1]) = 3

====
